---------------------------- MODULE Spec2Model ----------------------------
(***************************************************************************)
(* A model of volt's KVCluster (src/src/lib.rs): the consistent-hash ring, *)
(* the per-node store / expiry queue / mailbox, the per-node drain and     *)
(* expirer tasks, and the coordinator operations set, get and del.         *)
(*                                                                         *)
(* Conventions.                                                            *)
(*  - Option<T> is a tuple: None is <<>>, Some(x) is <<x>>.                *)
(*  - A map (DashMap, BTreeMap, PriorityQueue) is a function whose DOMAIN  *)
(*    is the set of keys present.                                          *)
(*  - Node indices are those of the code (0-based); the model's sequences  *)
(*    are 1-based, so node index i lives at position i + 1.                *)
(*  - Instant is a natural number; Duration is a positive natural number.  *)
(***************************************************************************)
EXTENDS Naturals, Sequences, FiniteSets, TLC

VARIABLES
    vnodes_per_node,     \* KVCluster.vnodes_per_node
    replication_factor,  \* KVCluster.replication_factor
    hash,                \* xxh32(., 0) on the strings the model hashes
    nodes,               \* KVCluster.nodes: the node ids, in insertion order
    ring,                \* KVCluster.ring: coordinate -> node index
    store,               \* KVNode.store of each node: key -> KVEntry
    ttl_queue,           \* KVNode.ttl_queue of each node: key -> priority
    mailbox,             \* the mpsc channel of each node (tx/rx)
    drain,               \* each node's drain task: its position and its op
    expirer,             \* each node's expirer task: its position and key
    now,                 \* Instant::now()
    caller,              \* each client task: its position and its locals
    hist,                \* history: per key, the writes that have returned
    log,                 \* history: per node, the operations its mailbox was
                         \* sent and those its drain task has applied
    handle               \* the KVCluster value add_node is called on: the
                         \* live clones of it, and whether add_node panicked

vars == <<vnodes_per_node, replication_factor, hash, nodes, ring, store,
          ttl_queue, mailbox, drain, expirer, now, caller, hist, log, handle>>

---------------------------------------------------------------------------
(* Bounds of the model. *)

\* Ring coordinates are 0..MaxCoord.  The code only compares coordinates
\* (BTreeMap order, range(khash..)), so a table of u32 hashes behaves as
\* the table of their ranks.
MaxCoord == 3

\* new(V, R) is called with 1 <= V <= MaxV and 1 <= R <= MaxR.
MaxV == 2

MaxR == 2

\* add_node is called at most MaxNodes times.
MaxNodes == 3

\* Instants are 0..MaxTime.
MaxTime == 2

\* A client task issues at most MaxOps operations.
MaxOps == 3

\* The capacity of a mailbox in the model (1000 in the code, KVCluster::add_node).
MailboxCap == 2

\* At most MaxClones clones of the cluster value are alive at a time.
MaxClones == 1

NodeIds == {"a", "b"}

Keys == {"k1", "k2"}

Values == {"v1", "v2"}

Durations == {1, 2}

Callers == {"c1"}

\* The client tasks of a cluster that several tasks share.
Writers == {"w1", "w2"}

---------------------------------------------------------------------------
(* Option, maps. *)

None == <<>>

Some(x) == <<x>>

EmptyMap == [x \in {} |-> 0]

\* HashMap/DashMap/BTreeMap insert; PriorityQueue push: the value of an
\* existing key is replaced.
MapPut(m, k, v) == [x \in (DOMAIN m) \cup {k} |-> IF x = k THEN v ELSE m[x]]

\* remove: nothing happens when the key is absent.
MapDel(m, k) == [x \in (DOMAIN m) \ {k} |-> m[x]]

RECURSIVE Ascending(_)
\* The elements of a finite set of numbers, smallest first (BTreeMap order).
Ascending(S) ==
    IF S = {} THEN <<>>
    ELSE LET m == CHOOSE x \in S : \A y \in S : x <= y
         IN  <<m>> \o Ascending(S \ {m})

---------------------------------------------------------------------------
(* Hashing and routing. *)

\* format!("{}:{}", node_id, i)
VnodeName(node_id, i) == node_id \o ":" \o ToString(i)

\* The strings the model hashes: every vnode name and every key.
HashInputs == {VnodeName(id, i) : id \in NodeIds, i \in 0..(MaxV - 1)} \cup Keys

Coords == 0..MaxCoord

\* xxh32(s.as_bytes(), 0)
xxh32(s) == hash[s]

\* self.ring.range(khash..).chain(self.ring.iter()): the node indices of
\* the entries at or after khash, then those of the whole ring.
RingWalk(khash) ==
    LET tail == Ascending({c \in DOMAIN ring : c >= khash})
        all  == Ascending(DOMAIN ring)
        walk == tail \o all
    IN  [j \in 1..Len(walk) |-> ring[walk[j]]]

\* A routing that looks at the stores: a key that some node holds is
\* routed to that node alone.
get_nodes_sticky(key) ==
    LET holders == {p \in 1..Len(store) : key \in DOMAIN store[p]}
        walk    == RingWalk(xxh32(key))
        n       == IF Len(walk) < replication_factor THEN Len(walk)
                   ELSE replication_factor
    IN  IF holders # {} THEN <<(CHOOSE p \in holders : TRUE) - 1>>
        ELSE SubSeq(walk, 1, n)

\* A routing that takes one entry more than R.
get_nodes_wide(key) ==
    LET walk == RingWalk(xxh32(key))
        n    == IF Len(walk) < replication_factor + 1 THEN Len(walk)
                ELSE replication_factor + 1
    IN  SubSeq(walk, 1, n)

\* KVCluster::get_nodes: the first replication_factor entries of the walk
\* (fewer when the walk is shorter), as node indices.
get_nodes(key) ==
    LET walk == RingWalk(xxh32(key))
        n    == IF Len(walk) < replication_factor THEN Len(walk)
                ELSE replication_factor
    IN  SubSeq(walk, 1, n)

---------------------------------------------------------------------------
(* The state after KVCluster::new(V, R). *)

IdleCaller ==
    [pc |-> "idle", op |-> "none", key |-> "", value |-> "", ttl |-> None,
     expiry |-> None, nodes |-> <<>>, i |-> 0, result |-> None, seen |-> None,
     at |-> 0, ops |-> 0]

\* KVCluster::new: no node, an empty ring; no task runs yet.
New(V, R) ==
    /\ vnodes_per_node = V
    /\ replication_factor = R
    /\ nodes = <<>>
    /\ ring = EmptyMap
    /\ store = <<>>
    /\ ttl_queue = <<>>
    /\ mailbox = <<>>
    /\ drain = <<>>
    /\ expirer = <<>>
    /\ now = 0
    /\ caller = [c \in Callers |-> IdleCaller]
    /\ hist = [k \in Keys |-> <<>>]
    /\ log = <<>>
    /\ handle = [clones |-> 0, pc |-> "ok"]

---------------------------------------------------------------------------
(* add_node. *)

\* An insertion that stores the index after the new node's.
RingInsertNext(r, node_id, node_idx) ==
    LET added == {xxh32(VnodeName(node_id, i)) : i \in 0..(vnodes_per_node - 1)}
    IN  [c \in (DOMAIN r) \cup added |-> IF c \in added THEN node_idx + 1 ELSE r[c]]

\* An insertion that keeps the entry a coordinate already has
\* (entry().or_insert): the first writer wins.
RingInsertKeep(r, node_id, node_idx) ==
    LET added == {xxh32(VnodeName(node_id, i)) : i \in 0..(vnodes_per_node - 1)}
    IN  [c \in (DOMAIN r) \cup added |-> IF c \in DOMAIN r THEN r[c] ELSE node_idx]

\* The ring after the loop of add_node: each of the V coordinates of the
\* node maps to node_idx, replacing whatever entry held that coordinate.
RingInsert(r, node_id, node_idx) ==
    LET added == {xxh32(VnodeName(node_id, i)) : i \in 0..(vnodes_per_node - 1)}
    IN  [c \in (DOMAIN r) \cup added |-> IF c \in added THEN node_idx ELSE r[c]]

\* An add_node that rebalances: the new node starts with a copy of the
\* entries of the first node.
AddNodeCopying(node_id) ==
    /\ Len(nodes) < MaxNodes
    /\ \A c \in DOMAIN caller : caller[c].pc = "idle"
    /\ LET node_idx == Len(nodes)
       IN  /\ nodes' = Append(nodes, node_id)
           /\ store' = Append(store, IF store = <<>> THEN EmptyMap ELSE store[1])
           /\ ttl_queue' = Append(ttl_queue, EmptyMap)
           /\ mailbox' = Append(mailbox, <<>>)
           /\ drain' = Append(drain, [pc |-> "recv", op |-> None, expiry |-> None])
           /\ ring' = RingInsert(ring, node_id, node_idx)
           /\ expirer' = Append(expirer, [pc |-> "sleep", key |-> None])
           /\ log' = Append(log, [sent |-> <<>>, applied |-> <<>>])
    /\ UNCHANGED <<handle, vnodes_per_node, replication_factor, hash, now, caller, hist>>

\* KVCluster::add_node(&mut self, node_id).  `&mut self` excludes every
\* operation in flight on this cluster, so no caller is inside set/get/del.
\* Lines 46-73 build the node, push it onto self.nodes and spawn its drain
\* task.  Line 75, Arc::get_mut(&mut self.ring).unwrap(), yields the ring
\* only when no clone of the cluster shares it; with a clone alive it is
\* None and the unwrap panics, before the ring loop and before the expirer
\* is spawned.
AddNode(node_id) ==
    /\ Len(nodes) < MaxNodes
    /\ handle.pc = "ok"
    /\ \A c \in DOMAIN caller : caller[c].pc = "idle"
    /\ LET node_idx == Len(nodes)
       IN  /\ nodes' = Append(nodes, node_id)
           /\ store' = Append(store, EmptyMap)
           /\ ttl_queue' = Append(ttl_queue, EmptyMap)
           /\ mailbox' = Append(mailbox, <<>>)
           /\ drain' = Append(drain, [pc |-> "recv", op |-> None, expiry |-> None])
           /\ log' = Append(log, [sent |-> <<>>, applied |-> <<>>])
           /\ IF handle.clones = 0
              THEN /\ ring' = RingInsert(ring, node_id, node_idx)
                   /\ expirer' = Append(expirer, [pc |-> "sleep", key |-> None])
                   /\ UNCHANGED handle
              ELSE /\ ring' = ring
                   /\ expirer' = Append(expirer, [pc |-> "unspawned", key |-> None])
                   /\ handle' = [handle EXCEPT !.pc = "panicked"]
    /\ UNCHANGED <<vnodes_per_node, replication_factor, hash, now, caller, hist>>

\* KVCluster::clone (derive(Clone)): the clone holds a second reference to
\* the same ring.
CloneCluster ==
    /\ handle.pc = "ok"
    /\ handle.clones < MaxClones
    /\ handle' = [handle EXCEPT !.clones = @ + 1]
    /\ UNCHANGED <<log, vnodes_per_node, replication_factor, hash, nodes, ring, store,
                   ttl_queue, mailbox, drain, expirer, now, caller, hist>>

\* A clone is dropped.
DropClone ==
    /\ handle.clones > 0
    /\ handle' = [handle EXCEPT !.clones = @ - 1]
    /\ UNCHANGED <<log, vnodes_per_node, replication_factor, hash, nodes, ring, store,
                   ttl_queue, mailbox, drain, expirer, now, caller, hist>>

---------------------------------------------------------------------------
(* Locks. *)

\* The position of node index idx in the model's sequences.
Pos(idx) == idx + 1

\* A shard read guard (dashmap Ref) on key of node p is alive: the `entry`
\* of a get that is inside its lazy-eviction branch.  A get that returns a
\* value or finds no entry takes and drops its guard within one step.
ReadGuard(p, key) ==
    \E c \in DOMAIN caller :
        /\ caller[c].pc \in {"get_remove", "get_queue"}
        /\ Pos(caller[c].nodes[1]) = p
        /\ caller[c].key = key

\* DashMap::insert / DashMap::remove take the shard's write lock, which
\* waits for every read guard of the shard to be dropped.  Each key is
\* taken to live in a shard of its own.
CanWrite(p, key) == ~ReadGuard(p, key)

\* The ttl_queue mutex of node p is held across steps only by the node's
\* expirer, from its lock() to the end of its pass.
QueueLocked(p) == expirer[p].pc \in {"peek", "remove", "pop"}

---------------------------------------------------------------------------
(* The expirer task of a node (add_node, the second tokio::spawn). *)

\* PriorityQueue::peek: a key of the greatest priority.
Tops(q) == {k \in DOMAIN q : \A j \in DOMAIN q : q[j] <= q[k]}

\* `while let Some((key, expiry)) = queue.peek()` and the comparison with
\* now, on queue q: an empty queue or a top that expires later ends the pass
\* (the lock is dropped, the task sleeps); otherwise the pass goes on to
\* remove the peeked key k.
Peeked(q, k) ==
    IF DOMAIN q = {} \/ q[k] > now
    THEN [pc |-> "sleep", key |-> None]
    ELSE [pc |-> "remove", key |-> Some(k)]

\* The task wakes from sleep(1 ms) and locks the queue: a pass begins.  The
\* mutex is free, since only this task holds it across steps.
EWake(p) ==
    /\ expirer[p].pc = "sleep"
    /\ expirer' = [expirer EXCEPT ![p].pc = "peek"]
    /\ UNCHANGED <<handle, log, vnodes_per_node, replication_factor, hash, nodes, ring, store,
                   ttl_queue, mailbox, drain, now, caller, hist>>

\* The first peek of a pass.
EPeek(p) ==
    /\ expirer[p].pc = "peek"
    /\ LET q == ttl_queue[p]
       IN  \E k \in (IF DOMAIN q = {} THEN {""} ELSE Tops(q)) :
               expirer' = [expirer EXCEPT ![p] = Peeked(q, k)]
    /\ UNCHANGED <<handle, log, vnodes_per_node, replication_factor, hash, nodes, ring, store,
                   ttl_queue, mailbox, drain, now, caller, hist>>

\* ttl_node.store.remove(key), the queue still locked.
ERemove(p) ==
    /\ expirer[p].pc = "remove"
    /\ LET key == expirer[p].key[1]
       IN  /\ CanWrite(p, key)
           /\ store' = [store EXCEPT ![p] = MapDel(@, key)]
    /\ expirer' = [expirer EXCEPT ![p].pc = "pop"]
    /\ UNCHANGED <<handle, log, vnodes_per_node, replication_factor, hash, nodes, ring,
                   ttl_queue, mailbox, drain, now, caller, hist>>

\* queue.pop(): the peeked key leaves the queue; the loop peeks again, the
\* queue still locked.
EPop(p) ==
    /\ expirer[p].pc = "pop"
    /\ LET q == MapDel(ttl_queue[p], expirer[p].key[1])
       IN  /\ ttl_queue' = [ttl_queue EXCEPT ![p] = q]
           /\ \E k \in (IF DOMAIN q = {} THEN {""} ELSE Tops(q)) :
                  expirer' = [expirer EXCEPT ![p] = Peeked(q, k)]
    /\ UNCHANGED <<handle, log, vnodes_per_node, replication_factor, hash, nodes, ring, store,
                   mailbox, drain, now, caller, hist>>

---------------------------------------------------------------------------
(* The drain task of a node (add_node, the first tokio::spawn). *)

\* KVOperation::Set(key, value, ttl) and KVOperation::Del(key)
OpSet(key, value, ttl) == <<"Set", key, value, ttl>>

OpDel(key) == <<"Del", key>>

\* ttl.map(|d| Instant::now() + d)
ExpiryOf(ttl) == IF ttl = None THEN None ELSE Some(now + ttl[1])

\* KVEntry { value, expiry }
KVEntry(value, expiry) == [value |-> value, expiry |-> expiry]

\* A receive that hands out the newest operation of the mailbox, not the
\* oldest.
DRecvNewest(p) ==
    /\ drain[p].pc = "recv"
    /\ mailbox[p] # <<>>
    /\ drain' = [drain EXCEPT ![p] = [pc |-> "apply",
                                      op |-> Some(mailbox[p][Len(mailbox[p])]),
                                      expiry |-> None]]
    /\ mailbox' = [mailbox EXCEPT ![p] = SubSeq(@, 1, Len(@) - 1)]
    /\ UNCHANGED <<handle, log, vnodes_per_node, replication_factor, hash, nodes, ring, store,
                   ttl_queue, expirer, now, caller, hist>>

\* rx.recv().await: the oldest operation leaves the mailbox.
DRecv(p) ==
    /\ drain[p].pc = "recv"
    /\ mailbox[p] # <<>>
    /\ drain' = [drain EXCEPT ![p] = [pc |-> "apply", op |-> Some(Head(mailbox[p])),
                                      expiry |-> None]]
    /\ mailbox' = [mailbox EXCEPT ![p] = Tail(@)]
    /\ UNCHANGED <<handle, log, vnodes_per_node, replication_factor, hash, nodes, ring, store,
                   ttl_queue, expirer, now, caller, hist>>

\* A drain task that takes the ttl as an instant: the expiry of a Set is
\* its duration, whatever the clock reads.
DApplyAtZero(p) ==
    /\ drain[p].pc = "apply"
    /\ LET op  == drain[p].op[1]
           key == op[2]
       IN  /\ CanWrite(p, key)
           /\ IF op[1] = "Set"
              THEN LET expiry == op[4]
                   IN  /\ store' = [store EXCEPT ![p] =
                                        MapPut(@, key, KVEntry(op[3], expiry))]
                       /\ drain' = [drain EXCEPT ![p] =
                              IF expiry = None
                              THEN [pc |-> "recv", op |-> None, expiry |-> None]
                              ELSE [pc |-> "queue", op |-> Some(op), expiry |-> expiry]]
              ELSE /\ store' = [store EXCEPT ![p] = MapDel(@, key)]
                   /\ drain' = [drain EXCEPT ![p].pc = "queue"]
           /\ log' = [log EXCEPT ![p].applied = Append(@, op)]
    /\ UNCHANGED <<handle, vnodes_per_node, replication_factor, hash, nodes, ring,
                   ttl_queue, mailbox, expirer, now, caller, hist>>

\* Set: the expiry is computed from the clock of the drain task and the
\* entry inserted.  Del: the entry is removed.  The queue follows in DQueue,
\* except for a Set without ttl, which is done.
DApply(p) ==
    /\ drain[p].pc = "apply"
    /\ LET op  == drain[p].op[1]
           key == op[2]
       IN  /\ CanWrite(p, key)
           /\ IF op[1] = "Set"
              THEN LET expiry == ExpiryOf(op[4])
                   IN  /\ store' = [store EXCEPT ![p] =
                                        MapPut(@, key, KVEntry(op[3], expiry))]
                       /\ drain' = [drain EXCEPT ![p] =
                              IF expiry = None
                              THEN [pc |-> "recv", op |-> None, expiry |-> None]
                              ELSE [pc |-> "queue", op |-> Some(op), expiry |-> expiry]]
              ELSE /\ store' = [store EXCEPT ![p] = MapDel(@, key)]
                   /\ drain' = [drain EXCEPT ![p].pc = "queue"]
           /\ log' = [log EXCEPT ![p].applied = Append(@, op)]
    /\ UNCHANGED <<handle, vnodes_per_node, replication_factor, hash, nodes, ring,
                   ttl_queue, mailbox, expirer, now, caller, hist>>

\* ttl_queue.lock().unwrap().push(key, exp) for a Set, .remove(&key) for a Del.
DQueue(p) ==
    /\ drain[p].pc = "queue"
    /\ ~QueueLocked(p)
    /\ LET op  == drain[p].op[1]
           key == op[2]
       IN  ttl_queue' = [ttl_queue EXCEPT ![p] =
               IF op[1] = "Set" THEN MapPut(@, key, drain[p].expiry[1])
               ELSE MapDel(@, key)]
    /\ drain' = [drain EXCEPT ![p] = [pc |-> "recv", op |-> None, expiry |-> None]]
    /\ UNCHANGED <<handle, log, vnodes_per_node, replication_factor, hash, nodes, ring, store,
                   mailbox, expirer, now, caller, hist>>

\* The drain task ends: the runtime it was spawned on shuts down and drops
\* the task where it is suspended, at rx.recv().await.  The receiver goes
\* with it, and so do the operations still in the channel.
DExit(p) ==
    /\ drain[p].pc = "recv"
    /\ drain' = [drain EXCEPT ![p].pc = "exited"]
    /\ mailbox' = [mailbox EXCEPT ![p] = <<>>]
    /\ UNCHANGED <<handle, log, vnodes_per_node, replication_factor, hash, nodes, ring, store,
                   ttl_queue, expirer, now, caller, hist>>

---------------------------------------------------------------------------
(* The coordinator: set, get, del.  Each runs in a client task. *)

\* The last two writes of a key that have returned, oldest first.
Remember(h, w) == IF Len(h) < 2 THEN Append(h, w) ELSE <<h[2], w>>

\* The history once the caller record cr is the caller's next state: a set
\* or del that has returned is recorded under its key.
HistAfter(cr) ==
    IF cr.pc = "idle" /\ cr.op \in {"set", "del"}
    THEN [hist EXCEPT ![cr.key] =
             Remember(@, [op |-> cr.op, value |-> cr.value, ttl |-> cr.ttl,
                          expiry |-> cr.expiry])]
    ELSE hist


\* The caller after its call has returned: its locals are gone; the call
\* and what it returned stay visible until the next call.
Returned(cr) ==
    [IdleCaller EXCEPT !.op = cr.op, !.key = cr.key, !.result = cr.result,
                       !.seen = cr.seen, !.at = cr.at, !.ops = cr.ops]

\* The caller's next state cr as stored: a call that has returned drops
\* its locals.
Settle(cr) == IF cr.pc = "idle" THEN Returned(cr) ELSE cr

\* What follows the inline part on the primary: `for replica in &nodes[1..]`,
\* or the return when nodes has one element.
AfterPrimary(cr) ==
    IF Len(cr.nodes) >= 2 THEN [cr EXCEPT !.pc = "send", !.i = 2]
    ELSE [cr EXCEPT !.pc = "idle"]

\* The locals of a call that starts: the arguments and get_nodes(key).
Called(c, op, key, value, ttl) ==
    [IdleCaller EXCEPT !.op = op, !.key = key, !.value = value, !.ttl = ttl,
                       !.nodes = get_nodes(key), !.ops = caller[c].ops + 1]

\* An empty replica set taken as nothing to do: the call returns.
Ignored(cr) == [cr EXCEPT !.pc = "idle"]

\* `let primary = &nodes[0]` on an empty Vec: the task panics.
Panicked(cr) == [cr EXCEPT !.pc = "panicked"]

\* KVCluster::set, lines 110-113: get_nodes, the expiry, the insert into
\* the store of the primary.
SetCall(c, key, value, ttl) ==
    /\ caller[c].pc = "idle"
    /\ caller[c].ops < MaxOps
    /\ LET cr == Called(c, "set", key, value, ttl)
       IN  IF cr.nodes = <<>>
           THEN /\ caller' = [caller EXCEPT ![c] = Panicked(cr)]
                /\ UNCHANGED <<store, hist>>
           ELSE LET p      == Pos(cr.nodes[1])
                    expiry == ExpiryOf(ttl)
                    next   == IF expiry = None THEN AfterPrimary(cr)
                              ELSE [cr EXCEPT !.pc = "set_push", !.expiry = expiry]
                IN  /\ CanWrite(p, key)
                    /\ store' = [store EXCEPT ![p] =
                                     MapPut(@, key, KVEntry(value, expiry))]
                    /\ caller' = [caller EXCEPT ![c] = Settle(next)]
                    /\ hist' = HistAfter(next)
    /\ UNCHANGED <<handle, log, vnodes_per_node, replication_factor, hash, nodes, ring,
                   ttl_queue, mailbox, drain, expirer, now>>

\* KVCluster::set, lines 114-116: the push into the queue of the primary.
SetPush(c) ==
    /\ caller[c].pc = "set_push"
    /\ LET cr   == caller[c]
           p    == Pos(cr.nodes[1])
           next == AfterPrimary(cr)
       IN  /\ ~QueueLocked(p)
           /\ ttl_queue' = [ttl_queue EXCEPT ![p] = MapPut(@, cr.key, cr.expiry[1])]
           /\ caller' = [caller EXCEPT ![c] = Settle(next)]
           /\ hist' = HistAfter(next)
    /\ UNCHANGED <<handle, log, vnodes_per_node, replication_factor, hash, nodes, ring, store,
                   mailbox, drain, expirer, now>>

\* KVCluster::del, lines 138-140: get_nodes, the removal from the store of
\* the primary.
DelCall(c, key) ==
    /\ caller[c].pc = "idle"
    /\ caller[c].ops < MaxOps
    /\ LET cr == Called(c, "del", key, "", None)
       IN  IF cr.nodes = <<>>
           THEN /\ caller' = [caller EXCEPT ![c] = Panicked(cr)]
                /\ UNCHANGED store
           ELSE LET p == Pos(cr.nodes[1])
                IN  /\ CanWrite(p, key)
                    /\ store' = [store EXCEPT ![p] = MapDel(@, key)]
                    /\ caller' = [caller EXCEPT ![c] = [cr EXCEPT !.pc = "del_queue"]]
    /\ UNCHANGED <<handle, log, vnodes_per_node, replication_factor, hash, nodes, ring,
                   ttl_queue, mailbox, drain, expirer, now, hist>>

\* KVCluster::del, line 141: the removal from the queue of the primary.
DelQueue(c) ==
    /\ caller[c].pc = "del_queue"
    /\ LET cr   == caller[c]
           p    == Pos(cr.nodes[1])
           next == AfterPrimary(cr)
       IN  /\ ~QueueLocked(p)
           /\ ttl_queue' = [ttl_queue EXCEPT ![p] = MapDel(@, cr.key)]
           /\ caller' = [caller EXCEPT ![c] = Settle(next)]
           /\ hist' = HistAfter(next)
    /\ UNCHANGED <<handle, log, vnodes_per_node, replication_factor, hash, nodes, ring, store,
                   mailbox, drain, expirer, now>>

\* A send whose error is not discarded (`?` for `let _ =`): the call fails
\* on a mailbox that is closed.
SendOrFail(c) ==
    /\ caller[c].pc = "send"
    /\ LET cr      == caller[c]
           replica == Pos(cr.nodes[cr.i])
           op      == IF cr.op = "set" THEN OpSet(cr.key, cr.value, cr.ttl)
                      ELSE OpDel(cr.key)
           next    == IF drain[replica].pc = "exited" THEN [cr EXCEPT !.pc = "failed"]
                      ELSE IF cr.i = Len(cr.nodes) THEN [cr EXCEPT !.pc = "idle"]
                      ELSE [cr EXCEPT !.i = cr.i + 1]
       IN  /\ IF drain[replica].pc = "exited"
              THEN UNCHANGED <<mailbox, log>>
              ELSE /\ Len(mailbox[replica]) < MailboxCap
                   /\ mailbox' = [mailbox EXCEPT ![replica] = Append(@, op)]
                   /\ log' = [log EXCEPT ![replica].sent = Append(@, op)]
           /\ caller' = [caller EXCEPT ![c] = Settle(next)]
           /\ hist' = HistAfter(next)
    /\ UNCHANGED <<handle, vnodes_per_node, replication_factor, hash, nodes, ring, store,
                   ttl_queue, drain, expirer, now>>

\* A send that gives up on a full mailbox (try_send): the operation is
\* dropped and the call goes on.
SendOrDrop(c) ==
    /\ caller[c].pc = "send"
    /\ LET cr      == caller[c]
           replica == Pos(cr.nodes[cr.i])
           op      == IF cr.op = "set" THEN OpSet(cr.key, cr.value, cr.ttl)
                      ELSE OpDel(cr.key)
           next    == IF cr.i = Len(cr.nodes) THEN [cr EXCEPT !.pc = "idle"]
                      ELSE [cr EXCEPT !.i = cr.i + 1]
       IN  /\ IF drain[replica].pc = "exited" \/ Len(mailbox[replica]) >= MailboxCap
              THEN UNCHANGED <<mailbox, log>>
              ELSE /\ mailbox' = [mailbox EXCEPT ![replica] = Append(@, op)]
                   /\ log' = [log EXCEPT ![replica].sent = Append(@, op)]
           /\ caller' = [caller EXCEPT ![c] = Settle(next)]
           /\ hist' = HistAfter(next)
    /\ UNCHANGED <<handle, vnodes_per_node, replication_factor, hash, nodes, ring, store,
                   ttl_queue, drain, expirer, now>>

\* One turn of `for replica in &nodes[1..]` of set or del:
\* `let _ = replica.tx.send(op).await`.  The send waits while the mailbox is
\* full; it fails at once when the receiver is gone, and the error is
\* discarded.  After the last turn the call returns.
Send(c) ==
    /\ caller[c].pc = "send"
    /\ LET cr      == caller[c]
           replica == Pos(cr.nodes[cr.i])
           op      == IF cr.op = "set" THEN OpSet(cr.key, cr.value, cr.ttl)
                      ELSE OpDel(cr.key)
           next    == IF cr.i = Len(cr.nodes) THEN [cr EXCEPT !.pc = "idle"]
                      ELSE [cr EXCEPT !.i = cr.i + 1]
       IN  /\ IF drain[replica].pc = "exited"
              THEN UNCHANGED <<mailbox, log>>
              ELSE /\ Len(mailbox[replica]) < MailboxCap
                   /\ mailbox' = [mailbox EXCEPT ![replica] = Append(@, op)]
                   /\ log' = [log EXCEPT ![replica].sent = Append(@, op)]
           /\ caller' = [caller EXCEPT ![c] = Settle(next)]
           /\ hist' = HistAfter(next)
    /\ UNCHANGED <<handle, vnodes_per_node, replication_factor, hash, nodes, ring, store,
                   ttl_queue, drain, expirer, now>>

\* Expired with `<` for `<=`: an entry is served at the instant it expires.
ExpiredLate(e) == e.expiry # None /\ e.expiry[1] < now

\* `expiry <= Instant::now()` of get, for the entry e that store.get found.
Expired(e) == e.expiry # None /\ e.expiry[1] <= now

\* A get that consults the replicas: it is answered from the store of the
\* last node of the replica set.
GetCallReplica(c, key) ==
    /\ caller[c].pc = "idle"
    /\ caller[c].ops < MaxOps
    /\ LET cr == Called(c, "get", key, "", None)
       IN  caller' = [caller EXCEPT ![c] =
               IF cr.nodes = <<>> THEN Panicked(cr)
               ELSE LET s == store[Pos(cr.nodes[Len(cr.nodes)])]
                    IN  IF key \notin DOMAIN s THEN Returned([cr EXCEPT !.at = now])
                        ELSE LET seen == [cr EXCEPT !.seen = Some(s[key]), !.at = now]
                             IN  IF Expired(s[key])
                                 THEN [seen EXCEPT !.pc = "get_remove"]
                                 ELSE Returned([seen EXCEPT
                                                   !.result = Some(s[key].value)])]
    /\ UNCHANGED <<handle, log, vnodes_per_node, replication_factor, hash, nodes, ring, store,
                   ttl_queue, mailbox, drain, expirer, now, hist>>

\* KVCluster::get, lines 123-127 and 133: get_nodes, store.get on the
\* primary, the comparison with the clock.  No entry: None.  A live entry:
\* Some(value).  An expired entry: the call goes on to line 128 with
\* `entry`, the read guard of the shard, still alive.
GetCall(c, key) ==
    /\ caller[c].pc = "idle"
    /\ caller[c].ops < MaxOps
    /\ LET cr == Called(c, "get", key, "", None)
       IN  caller' = [caller EXCEPT ![c] =
               IF cr.nodes = <<>> THEN Panicked(cr)
               ELSE LET s == store[Pos(cr.nodes[1])]
                    IN  IF key \notin DOMAIN s THEN Returned([cr EXCEPT !.at = now])
                        ELSE LET seen == [cr EXCEPT !.seen = Some(s[key]), !.at = now]
                             IN  IF Expired(s[key])
                                 THEN [seen EXCEPT !.pc = "get_remove"]
                                 ELSE Returned([seen EXCEPT
                                                   !.result = Some(s[key].value)])]
    /\ UNCHANGED <<handle, log, vnodes_per_node, replication_factor, hash, nodes, ring, store,
                   ttl_queue, mailbox, drain, expirer, now, hist>>

\* KVCluster::get, line 128: primary.store.remove(key).  DashMap::remove
\* waits for the write lock of the shard, that is for every read guard of
\* the shard to be dropped, and the call itself holds one in `entry` until
\* the closure ends: the step is never enabled, and no specification below
\* lists it.
GetRemove(c) ==
    /\ caller[c].pc = "get_remove"
    /\ LET cr == caller[c]
           p  == Pos(cr.nodes[1])
       IN  /\ CanWrite(p, cr.key)
           /\ store' = [store EXCEPT ![p] = MapDel(@, cr.key)]
           /\ caller' = [caller EXCEPT ![c].pc = "get_queue"]
    /\ UNCHANGED <<handle, log, vnodes_per_node, replication_factor, hash, nodes, ring,
                   ttl_queue, mailbox, drain, expirer, now, hist>>

\* KVCluster::get, lines 129-130: ttl_queue.lock().unwrap().remove(key) and
\* `return None`.  It follows GetRemove, and is as unreachable.
GetQueue(c) ==
    /\ caller[c].pc = "get_queue"
    /\ LET cr == caller[c]
           p  == Pos(cr.nodes[1])
       IN  /\ ~QueueLocked(p)
           /\ ttl_queue' = [ttl_queue EXCEPT ![p] = MapDel(@, cr.key)]
           /\ caller' = [caller EXCEPT ![c] = Returned(cr)]
    /\ UNCHANGED <<handle, log, vnodes_per_node, replication_factor, hash, nodes, ring, store,
                   mailbox, drain, expirer, now, hist>>

\* The clock advances.
Tick ==
    /\ now < MaxTime
    /\ now' = now + 1
    /\ UNCHANGED <<handle, log, vnodes_per_node, replication_factor, hash, nodes, ring, store,
                   ttl_queue, mailbox, drain, expirer, caller, hist>>

---------------------------------------------------------------------------
(* Specifications. *)

Ttls == {None} \cup {Some(d) : d \in Durations}

Positions == 1..Len(nodes)

\* The ids of the nodes of a served cluster, in the order they are added.
NodeOrder == <<"a", "b">>

\* The cluster is set up before it serves (bin/server.rs, main.rs, the
\* benches): add_node runs, with fresh ids, before the first operation.
Setup ==
    /\ \A c \in DOMAIN caller : caller[c].ops = 0
    /\ Len(nodes) < Len(NodeOrder)
    /\ AddNode(NodeOrder[Len(nodes) + 1])

\* Every hash table over the coordinates.
AllHashes == [HashInputs -> Coords]

\* The table the specifications with tasks start from.  As coordinates
\* a:0 < a:1 < b:0 < b:1; k1 hashes onto a:0 and k2 onto a:1.
HashCase ==
    [s \in HashInputs |->
        CASE s = "a:0" -> 0 [] s = "a:1" -> 1 [] s = "b:0" -> 2 [] s = "b:1" -> 3
          [] s = "k1" -> 0 [] s = "k2" -> 1 [] OTHER -> 0]

(* SpecRing: every ring.  Any table, any V and R; add_node and routing. *)

InitRing ==
    /\ hash \in AllHashes
    /\ \E V \in 1..MaxV, R \in 1..MaxR : New(V, R)

NextRing ==
    \/ \E node_id \in NodeIds : AddNode(node_id)
    \/ \E c \in Callers, key \in Keys : GetCall(c, key)

SpecRing == InitRing /\ [][NextRing]_vars

(* SpecTtl: expiry.  new(1, 1): every replica set is its primary alone, so *)
(* no mailbox is ever written and the drain tasks never leave recv().     *)
(* With a alone on the ring both keys live on a; with a and b, k1 lives   *)
(* on a and k2 on b.                                                      *)

InitTtl ==
    /\ hash = HashCase
    /\ New(1, 1)

NextTtl ==
    \/ Setup
    \/ \E c \in Callers, key \in Keys, value \in Values, ttl \in Ttls :
           SetCall(c, key, value, ttl)
    \/ \E c \in Callers : SetPush(c)
    \/ \E c \in Callers, key \in Keys : DelCall(c, key)
    \/ \E c \in Callers : DelQueue(c)
    \/ \E c \in Callers, key \in Keys : GetCall(c, key)
    \/ \E p \in Positions : EWake(p)
    \/ \E p \in Positions : EPeek(p)
    \/ \E p \in Positions : ERemove(p)
    \/ \E p \in Positions : EPop(p)
    \/ Tick

SpecTtl == InitTtl /\ [][NextTtl]_vars

(* SpecRepl: replication.  new(2, 2), writes without ttl: no queue ever   *)
(* holds a record, so the expirer passes change nothing and the clock is  *)
(* not read.                                                              *)

InitRepl ==
    /\ hash = HashCase
    /\ New(2, 2)

NextRepl ==
    \/ Setup
    \/ \E c \in Callers, key \in Keys, value \in Values :
           SetCall(c, key, value, None)
    \/ \E c \in Callers, key \in Keys : DelCall(c, key)
    \/ \E c \in Callers : DelQueue(c)
    \/ \E c \in Callers : Send(c)
    \/ \E c \in Callers, key \in Keys : GetCall(c, key)
    \/ \E p \in Positions : DRecv(p)
    \/ \E p \in Positions : DApply(p)
    \/ \E p \in Positions : DQueue(p)

SpecRepl == InitRepl /\ [][NextRepl]_vars

(* SpecGet: SpecTtl with the operations on one key. *)

NextGet ==
    \/ Setup
    \/ \E c \in Callers, value \in Values, ttl \in Ttls : SetCall(c, "k1", value, ttl)
    \/ \E c \in Callers : SetPush(c)
    \/ \E c \in Callers : DelCall(c, "k1")
    \/ \E c \in Callers : DelQueue(c)
    \/ \E c \in Callers : GetCall(c, "k1")
    \/ \E p \in Positions : EWake(p)
    \/ \E p \in Positions : EPeek(p)
    \/ \E p \in Positions : ERemove(p)
    \/ \E p \in Positions : EPop(p)
    \/ Tick

SpecGet == InitTtl /\ [][NextGet]_vars

(* SpecLazy: SpecTtl with the expirer tasks never scheduled.  A client    *)
(* task that can take a step inside its call takes it.                    *)

NextLazy ==
    \/ Setup
    \/ \E c \in Callers, key \in Keys, value \in Values, ttl \in Ttls :
           SetCall(c, key, value, ttl)
    \/ \E c \in Callers : SetPush(c)
    \/ \E c \in Callers, key \in Keys : DelCall(c, key)
    \/ \E c \in Callers : DelQueue(c)
    \/ \E c \in Callers, key \in Keys : GetCall(c, key)
    \/ Tick

InCall ==
    \E c \in Callers :
        SetPush(c) \/ DelQueue(c) \/ Send(c) \/ GetRemove(c) \/ GetQueue(c)

SpecLazy == InitTtl /\ [][NextLazy]_vars /\ WF_vars(InCall)

(* FairRepl: SpecRepl where a task that can take a step takes it: the     *)
(* drain tasks are spawned on the runtime and a call in flight is polled. *)

Drains == \E p \in Positions : DRecv(p) \/ DApply(p) \/ DQueue(p)

FairRepl == SpecRepl /\ WF_vars(Drains) /\ WF_vars(InCall)

(* SpecConc: concurrent writers.  new(1, 2) with a and b on the ring: the  *)
(* replica set of k1 is a then b.  Two client tasks share the cluster and  *)
(* write k1 without ttl; the drain tasks run.                              *)

InitConc ==
    /\ hash = HashCase
    /\ vnodes_per_node = 1
    /\ replication_factor = 2
    /\ nodes = <<>>
    /\ ring = EmptyMap
    /\ store = <<>>
    /\ ttl_queue = <<>>
    /\ mailbox = <<>>
    /\ drain = <<>>
    /\ expirer = <<>>
    /\ now = 0
    /\ caller = [c \in Writers |-> IdleCaller]
    /\ hist = [k \in Keys |-> <<>>]
    /\ log = <<>>
    /\ handle = [clones |-> 0, pc |-> "ok"]

NextConc ==
    \/ Setup
    \/ \E c \in Writers, value \in Values : SetCall(c, "k1", value, None)
    \/ \E c \in Writers : DelCall(c, "k1")
    \/ \E c \in Writers : DelQueue(c)
    \/ \E c \in Writers : Send(c)
    \/ \E p \in Positions : DRecv(p)
    \/ \E p \in Positions : DApply(p)
    \/ \E p \in Positions : DQueue(p)

SpecConc == InitConc /\ [][NextConc]_vars

(* SpecClosed: mailboxes that close.  new(1, 3) with a, b and c on the     *)
(* ring: the replica set of k1 is a, b, c and that of k2 is b, c, a.  One  *)
(* task writes without ttl; the drain tasks run, and any of them may end.  *)

NodeOrder3 == <<"a", "b", "c">>

HashThree ==
    [s \in {"a:0", "b:0", "c:0"} \cup Keys |->
        CASE s = "a:0" -> 0 [] s = "b:0" -> 1 [] s = "c:0" -> 2
          [] s = "k1" -> 0 [] s = "k2" -> 1]

Setup3 ==
    /\ \A c \in DOMAIN caller : caller[c].ops = 0
    /\ Len(nodes) < Len(NodeOrder3)
    /\ AddNode(NodeOrder3[Len(nodes) + 1])

InitClosed ==
    /\ hash = HashThree
    /\ New(1, 3)

NextClosed ==
    \/ Setup3
    \/ \E c \in Callers, key \in Keys, value \in Values :
           SetCall(c, key, value, None)
    \/ \E c \in Callers, key \in Keys : DelCall(c, key)
    \/ \E c \in Callers : DelQueue(c)
    \/ \E c \in Callers : Send(c)
    \/ \E p \in Positions : DRecv(p)
    \/ \E p \in Positions : DApply(p)
    \/ \E p \in Positions : DQueue(p)
    \/ \E p \in Positions : DExit(p)

SpecClosed == InitClosed /\ [][NextClosed]_vars /\ WF_vars(Drains) /\ WF_vars(InCall)

(* SpecGrow: a cluster that grows while it serves.  new(1, 2); a is added, *)
(* then b, each at any moment at which no call is in flight.  With a alone *)
(* both keys live on a; once b is on the ring, at a coordinate between the *)
(* hash of k1 and the coordinate of a, the primary of k1 is b.  The clock  *)
(* stands still, so no entry expires.                                      *)

HashGrow ==
    [s \in HashInputs |->
        CASE s = "a:0" -> 2 [] s = "b:0" -> 1 [] s = "k1" -> 0 [] s = "k2" -> 2
          [] OTHER -> 3]

Grow ==
    /\ Len(nodes) < Len(NodeOrder)
    /\ AddNode(NodeOrder[Len(nodes) + 1])

InitGrow ==
    /\ hash = HashGrow
    /\ New(1, 2)

NextGrow ==
    \/ Grow
    \/ \E c \in Callers, key \in Keys, value \in Values, ttl \in Ttls :
           SetCall(c, key, value, ttl)
    \/ \E c \in Callers : SetPush(c)
    \/ \E c \in Callers, key \in Keys : DelCall(c, key)
    \/ \E c \in Callers : DelQueue(c)
    \/ \E c \in Callers : Send(c)
    \/ \E c \in Callers, key \in Keys : GetCall(c, key)
    \/ \E p \in Positions : DRecv(p)
    \/ \E p \in Positions : DApply(p)
    \/ \E p \in Positions : DQueue(p)

SpecGrow == InitGrow /\ [][NextGrow]_vars

(* SpecPlace: placement on a cluster that grows.  new(1, 2); a, b and c    *)
(* are added in this order, each at any moment at which no call is in      *)
(* flight, at coordinates 1, 2 and 3.  k1 hashes to 0 and k2 to 3: the     *)
(* replica set of k1 is a alone, then a and b, and never has c; that of k2 *)
(* is a alone, then a and b, then c and a.  Writes carry no ttl.           *)

HashPlace ==
    [s \in {"a:0", "b:0", "c:0"} \cup Keys |->
        CASE s = "a:0" -> 1 [] s = "b:0" -> 2 [] s = "c:0" -> 3
          [] s = "k1" -> 0 [] s = "k2" -> 3]

Grow3 ==
    /\ Len(nodes) < Len(NodeOrder3)
    /\ AddNode(NodeOrder3[Len(nodes) + 1])

InitPlace ==
    /\ hash = HashPlace
    /\ New(1, 2)

NextPlace ==
    \/ Grow3
    \/ \E c \in Callers, key \in Keys, value \in Values :
           SetCall(c, key, value, None)
    \/ \E c \in Callers, key \in Keys : DelCall(c, key)
    \/ \E c \in Callers : DelQueue(c)
    \/ \E c \in Callers : Send(c)
    \/ \E p \in Positions : DRecv(p)
    \/ \E p \in Positions : DApply(p)
    \/ \E p \in Positions : DQueue(p)

SpecPlace == InitPlace /\ [][NextPlace]_vars

(* SpecClone: clones.  new(V, 1); the cluster value is cloned and its      *)
(* clones dropped at any moment, and add_node is called on it with any id. *)

InitClone ==
    /\ hash = HashCase
    /\ \E V \in 1..MaxV : New(V, 1)

NextClone ==
    \/ \E node_id \in NodeIds : AddNode(node_id)
    \/ CloneCluster
    \/ DropClone
    \/ \E c \in Callers, key \in Keys : GetCall(c, key)

SpecClone == InitClone /\ [][NextClone]_vars

(* SpecLag: replication of writes with ttl.  new(1, 2) with a and b on the *)
(* ring: the replica set of k1 is a then b.  One task sets k1 with a ttl;  *)
(* the drain tasks run and the clock advances.                             *)

InitLag ==
    /\ hash = HashCase
    /\ New(1, 2)

NextLag ==
    \/ Setup
    \/ \E c \in Callers, value \in Values, d \in Durations :
           SetCall(c, "k1", value, Some(d))
    \/ \E c \in Callers : SetPush(c)
    \/ \E c \in Callers : Send(c)
    \/ \E p \in Positions : DRecv(p)
    \/ \E p \in Positions : DApply(p)
    \/ \E p \in Positions : DQueue(p)
    \/ Tick

SpecLag == InitLag /\ [][NextLag]_vars

---------------------------------------------------------------------------
(* What the claims speak of. *)

\* The last element of a non-empty sequence.
Last(h) == h[Len(h)]

RECURSIVE Distinct(_)
\* A sequence without its repetitions, first occurrences kept.
Distinct(s) ==
    IF s = <<>> THEN <<>>
    ELSE LET rest == Distinct(SubSeq(s, 1, Len(s) - 1))
             x    == s[Len(s)]
         IN  IF \E j \in 1..Len(rest) : rest[j] = x THEN rest ELSE Append(rest, x)

\* The replica set as specified: the first R distinct nodes of the
\* clockwise walk from the hash of the key.
ReplicaSet(key) ==
    LET walk == Distinct(RingWalk(xxh32(key)))
    IN  SubSeq(walk, 1, IF Len(walk) < replication_factor THEN Len(walk)
                        ELSE replication_factor)

\* The nodes that own an entry of the ring.
RingNodes == {ring[c] : c \in DOMAIN ring}

NoRepeat(s) == \A i, j \in 1..Len(s) : s[i] = s[j] => i = j

\* The call of c has returned and was a get.
GetReturned(c) == caller[c].pc = "idle" /\ caller[c].op = "get"

\* The position of the primary of key, on a non-empty ring.
Primary(key) == Pos(get_nodes(key)[1])

---------------------------------------------------------------------------
(* The claims. *)

\* C1: on every ring built by add_node calls and for every key, get_nodes
\* returns no node twice, and returns R nodes when the ring has n >= R nodes
\* and n nodes when n < R.
C1_ReplicaSetDistinct ==
    \A key \in Keys :
        LET ns == get_nodes(key)
            n  == Cardinality(RingNodes)
        IN  /\ NoRepeat(ns)
            /\ Len(ns) = IF n >= replication_factor THEN replication_factor ELSE n

\* C2: a get(k) that returns after set(k, v, ttl) has returned, with no
\* set or del of k in between, returns Some(v) when the clock it reads is
\* before the expiry of that set, or the set had no ttl.
C2_ReadYourWrites ==
    \A c \in Callers :
        (/\ GetReturned(c)
         /\ hist[caller[c].key] # <<>>
         /\ Last(hist[caller[c].key]).op = "set"
         /\ \/ Last(hist[caller[c].key]).expiry = None
            \/ caller[c].at < Last(hist[caller[c].key]).expiry[1])
        => caller[c].result = Some(Last(hist[caller[c].key]).value)

\* C3: after set(k, v1, None) then set(k, v2, None), with no later set or
\* del of k, every get(k) returns Some(v2).
C3_OverwriteStable ==
    \A c \in Callers :
        LET h == hist[caller[c].key]
        IN  (/\ GetReturned(c)
             /\ Len(h) = 2
             /\ h[1].op = "set" /\ h[1].ttl = None
             /\ h[2].op = "set" /\ h[2].ttl = None)
            => caller[c].result = Some(h[2].value)

\* C4: after set(k, v, ttl) then del(k), with no later set of k, every
\* get(k) returns absent.
C4_DeleteStable ==
    \A c \in Callers :
        LET h == hist[caller[c].key]
        IN  (/\ GetReturned(c)
             /\ Len(h) = 2
             /\ h[1].op = "set"
             /\ h[2].op = "del")
            => caller[c].result = None

\* C5: after set(k, v1, d1) then set(k, v2, d2) with d2 > d1, and while the
\* second expiry is ahead, the queue of the primary holds one record for k,
\* with the expiry of the second set, and a get(k) that reads the clock at or
\* after the first expiry and before the second returns Some(v2).
C5_TtlUpsert ==
    \A key \in Keys :
        LET h == hist[key]
        IN  (/\ Len(h) = 2
             /\ h[1].op = "set" /\ h[1].ttl # None
             /\ h[2].op = "set" /\ h[2].ttl # None
             /\ h[2].ttl[1] > h[1].ttl[1])
            => /\ (now < h[2].expiry[1] /\ \A c \in Callers : caller[c].pc = "idle")
                  => /\ key \in DOMAIN ttl_queue[Primary(key)]
                     /\ ttl_queue[Primary(key)][key] = h[2].expiry[1]
               /\ \A c \in Callers :
                     (/\ GetReturned(c)
                      /\ caller[c].key = key
                      /\ caller[c].at >= h[1].expiry[1]
                      /\ caller[c].at < h[2].expiry[1])
                     => caller[c].result = Some(h[2].value)

\* C6: a get never returns the value of an entry whose expiry is at or
\* before the instant the get reads from the clock; a get that has found
\* such an entry and has returned has returned absent.
C6_NoExpiredValue ==
    \A c \in Callers :
        (GetReturned(c) /\ caller[c].seen # None)
        => LET e == caller[c].seen[1]
           IN  IF e.expiry # None /\ e.expiry[1] <= caller[c].at
               THEN caller[c].result = None
               ELSE caller[c].result = Some(e.value)

\* A get has returned the value of an entry that carries an expiry, having
\* read the clock after the entry was written.
C6_Witness ==
    \E c \in Callers :
        /\ GetReturned(c)
        /\ caller[c].result # None
        /\ caller[c].seen # None
        /\ caller[c].seen[1].expiry # None
        /\ caller[c].at > 0

\* The get of c has found an entry whose expiry has passed.
SawExpired(c) ==
    /\ caller[c].op = "get"
    /\ caller[c].seen # None
    /\ caller[c].seen[1].expiry # None
    /\ caller[c].seen[1].expiry[1] <= caller[c].at

\* The get of c has returned absent, and its key is in neither the store
\* nor the queue of the primary.
LazilyEvicted(c) ==
    /\ GetReturned(c)
    /\ caller[c].result = None
    /\ caller[c].key \notin DOMAIN store[Primary(caller[c].key)]
    /\ caller[c].key \notin DOMAIN ttl_queue[Primary(caller[c].key)]

\* C7: with the expirer never scheduled, a get(k) that finds the entry of
\* an earlier set(k, v, d) expired returns absent, and at its return k is in
\* neither the store nor the expiry queue of the primary.
C7_LazyExpiry == \A c \in Callers : SawExpired(c) ~> LazilyEvicted(c)

\* C8: get always terminates; in particular, a get in its lazy-eviction
\* branch can go on to remove the entry from the map while it holds its own
\* reference into the map.
C8_GetTerminates ==
    \A c \in Callers : caller[c].pc = "get_remove" => ENABLED GetRemove(c)

\* C9: each pass of an expirer removes from the queue every key whose
\* queued expiry is at or before the current time, whatever later expiries
\* the queue holds: when a pass ends, no such record is left.
C9_EagerExpiry ==
    [][\A p \in Positions :
          (expirer[p].pc # "sleep" /\ expirer'[p].pc = "sleep")
          => \A k \in DOMAIN ttl_queue'[p] : ttl_queue'[p][k] > now]_vars

\* No set or del of key is in flight.
Quiet(key) ==
    \A c \in DOMAIN caller :
        ~(caller[c].pc # "idle" /\ caller[c].op \in {"set", "del"} /\ caller[c].key = key)

\* The last write of key, a set(key, value, None), has returned.
WasSet(key, value) ==
    /\ hist[key] # <<>>
    /\ Last(hist[key]).op = "set"
    /\ Last(hist[key]).value = value
    /\ Last(hist[key]).ttl = None
    /\ Quiet(key)

\* The last two writes of key, a set then a del, have returned.
WasDeleted(key) ==
    /\ Len(hist[key]) = 2
    /\ hist[key][1].op = "set"
    /\ hist[key][2].op = "del"
    /\ Quiet(key)

\* The positions of the replicas of key: its replica set without the primary.
Replicas(key) == {Pos(ReplicaSet(key)[j]) : j \in 2..Len(ReplicaSet(key))}

\* C10: after set(k, v, None) has returned, and with no further operation
\* on k, every replica of k eventually holds (k, v); after set then del,
\* every replica eventually holds no entry of k.
C10_ReplicaConvergence ==
    \A key \in Keys :
        /\ \A value \in Values :
              WasSet(key, value)
              ~> (\/ ~WasSet(key, value)
                  \/ \A p \in Replicas(key) :
                        /\ key \in DOMAIN store[p]
                        /\ store[p][key].value = value)
        /\ WasDeleted(key)
              ~> (\/ ~WasDeleted(key)
                  \/ \A p \in Replicas(key) : key \notin DOMAIN store[p])

\* What node p holds for key: Some(value), or None.
Held(p, key) == IF key \in DOMAIN store[p] THEN Some(store[p][key].value) ELSE None

\* Every call has returned, every mailbox is empty and every drain task is
\* back at recv().
Settled ==
    /\ ring # EmptyMap
    /\ \A c \in DOMAIN caller : caller[c].pc = "idle"
    /\ \A p \in Positions : mailbox[p] = <<>> /\ drain[p].pc = "recv"

\* C11: whatever set and del calls on one key several tasks issue
\* concurrently (no ttl, no add_node), once all calls have returned and all
\* mailboxes are drained every replica of the key holds what the primary
\* holds for it, a value or nothing.
C11_ConcurrentConvergence ==
    Settled => \A key \in Keys : \A p \in Replicas(key) :
                   Held(p, key) = Held(Primary(key), key)

\* The operation the drain task of p has received and not yet applied.
InHand(p) == IF drain[p].pc = "apply" THEN <<drain[p].op[1]>> ELSE <<>>

\* What an operation leaves in a store for its key.
Effect(op) == IF op[1] = "Set" THEN Some(op[3]) ELSE None

\* C12: on every node, the operations the drain task has applied, the one
\* it holds and those waiting in the mailbox are, in this order, the
\* operations that were enqueued, in the order they were enqueued; and
\* applying an operation leaves its effect in the store of the node.
C12_MailboxFifo ==
    /\ [](\A p \in Positions :
             log[p].sent = log[p].applied \o InHand(p) \o mailbox[p])
    /\ [][\A p \in Positions :
             log'[p].applied # log[p].applied
             => LET op == Last(log'[p].applied)
                IN  /\ log'[p].applied = Append(log[p].applied, op)
                    /\ Effect(op) = IF op[2] \in DOMAIN store'[p]
                                    THEN Some(store'[p][op[2]].value) ELSE None]_vars

\* A drain task has applied two different operations, which were waiting
\* in its mailbox together.
C12_Witness ==
    \E p \in Positions :
        /\ Len(log[p].applied) >= 2
        /\ log[p].applied[1] # log[p].applied[2]

\* The mailbox the call of c is about to send to.
Target(c) == Pos(caller[c].nodes[caller[c].i])

\* The call of c waits in send on a full mailbox.
Waiting(c) ==
    /\ caller[c].pc = "send"
    /\ drain[Target(c)].pc # "exited"
    /\ Len(mailbox[Target(c)]) = MailboxCap

\* C13: no mailbox ever holds more than its capacity; a set or del whose
\* replica mailbox is full neither returns nor gives its operation up, it
\* stays in its send, and once the drain task has freed a slot it enqueues
\* and completes.
C13_BackPressure ==
    /\ [](\A p \in Positions : Len(mailbox[p]) <= MailboxCap)
    /\ [][\A c \in Callers : Waiting(c) => caller'[c] = caller[c]]_vars
    /\ \A c \in Callers, p \in 1..MaxNodes, n \in 0..MaxOps :
          (Waiting(c) /\ Target(c) = p /\ Len(log[p].sent) = n)
          ~> (/\ caller[c].pc = "idle"
              /\ p \in Positions
              /\ Len(log[p].sent) > n)

\* A call waits in send on a full mailbox.
C13_Witness == \E c \in Callers : Waiting(c)

\* C14: on a cluster without a node, a set, get or del ends in a panic and
\* does not return, and the cluster is as it was before the call.
C14_EmptyRing ==
    [][\A c \in Callers :
          (nodes = <<>> /\ caller'[c] # caller[c])
          => /\ caller'[c].pc = "panicked"
             /\ UNCHANGED <<nodes, ring, store, ttl_queue, mailbox, drain,
                            expirer, hist, log>>]_vars

\* A call has panicked on a cluster without a node.
C14_Witness ==
    \E c \in Callers :
        /\ caller[c].pc = "panicked"
        /\ caller[c].op \in {"set", "get", "del"}
        /\ nodes = <<>>

\* The operation that the last write of key to return has sent.
LastOp(key) ==
    LET w == Last(hist[key])
    IN  IF w.op = "set" THEN OpSet(key, w.value, w.ttl) ELSE OpDel(key)

\* The set or del of c has returned.
WriteReturned(c) == caller[c].pc = "idle" /\ caller[c].op \in {"set", "del"}

\* The set or del of c begins in this step, on a ring with a node.
WriteBegins(c) ==
    /\ caller[c].pc = "idle"
    /\ caller'[c] # caller[c]
    /\ caller'[c].op \in {"set", "del"}
    /\ nodes # <<>>

\* C15: whichever mailboxes are closed, the first step of a set or del
\* leaves its effect in the store of the primary; a set or del that has
\* reached its sends returns; and when it has returned, every other node
\* of the replica set either has its mailbox closed or was sent the
\* operation.
C15_MailboxClosed ==
    /\ [][\A c \in Callers, key \in Keys :
             (WriteBegins(c) /\ caller'[c].key = key)
             => LET s == store'[Primary(key)]
                IN  IF caller'[c].op = "del" THEN key \notin DOMAIN s
                    ELSE /\ key \in DOMAIN s
                         /\ s[key] = KVEntry(IF caller'[c].pc = "idle"
                                             THEN Last(hist'[key]).value
                                             ELSE caller'[c].value, None)]_vars
    /\ [](\A c \in Callers :
             (WriteReturned(c) /\ nodes # <<>>)
             => LET key == caller[c].key
                    rs  == ReplicaSet(key)
                IN  \A j \in 2..Len(rs) :
                        \/ drain[Pos(rs[j])].pc = "exited"
                        \/ /\ log[Pos(rs[j])].sent # <<>>
                           /\ Last(log[Pos(rs[j])].sent) = LastOp(key))
    /\ \A c \in Callers : (caller[c].pc = "send") ~> WriteReturned(c)

\* A write has returned whose first replica was closed and was sent
\* nothing, and whose second replica was sent the operation.
C15_Witness ==
    \E c \in Callers :
        /\ WriteReturned(c)
        /\ LET rs == ReplicaSet(caller[c].key)
           IN  /\ Len(rs) = 3
               /\ drain[Pos(rs[2])].pc = "exited"
               /\ log[Pos(rs[2])].sent = <<>>
               /\ log[Pos(rs[3])].sent # <<>>
               /\ Last(log[Pos(rs[3])].sent) = LastOp(caller[c].key)

\* C16: add_node leaves the store, the queue and the mailbox of every node
\* that exists unchanged and gives the new node an empty store; a get that
\* returns is answered from the store of the primary the ring now gives
\* its key.
C16_NoRebalancing ==
    /\ [][Len(nodes') > Len(nodes)
          => /\ \A p \in Positions :
                   /\ store'[p] = store[p]
                   /\ ttl_queue'[p] = ttl_queue[p]
                   /\ mailbox'[p] = mailbox[p]
             /\ store'[Len(nodes')] = EmptyMap
             /\ ttl_queue'[Len(nodes')] = EmptyMap]_vars
    /\ [][\A c \in Callers :
             (/\ caller[c].pc = "idle"
              /\ caller'[c] # caller[c]
              /\ caller'[c].pc = "idle"
              /\ caller'[c].op = "get")
             => caller'[c].result = Held(Primary(caller'[c].key), caller'[c].key)]_vars

\* After add_node, a get of a key written earlier has returned absent while
\* the entry is in the store of the node that was its primary.
C16_Witness ==
    \E c \in Callers :
        /\ GetReturned(c)
        /\ caller[c].result = None
        /\ Len(nodes) = 2
        /\ hist[caller[c].key] # <<>>
        /\ Last(hist[caller[c].key]).op = "set"
        /\ Primary(caller[c].key) = 2
        /\ caller[c].key \in DOMAIN store[1]
        /\ log[2].sent = <<>>

RECURSIVE RingOf(_)
\* The ring that the add_node calls for the ids of the sequence build, from
\* the empty ring of new: the i-th call inserts its coordinates with index
\* i - 1.
RingOf(ids) ==
    IF ids = <<>> THEN EmptyMap
    ELSE RingInsert(RingOf(SubSeq(ids, 1, Len(ids) - 1)), ids[Len(ids)], Len(ids) - 1)

\* The replica set as a function of V, R, the sequence of add_node calls
\* and the key, and of nothing else.
Route(ids, key) ==
    LET r     == RingOf(ids)
        khash == xxh32(key)
        walk  == Ascending({c \in DOMAIN r : c >= khash}) \o Ascending(DOMAIN r)
        n     == IF Len(walk) < replication_factor THEN Len(walk)
                 ELSE replication_factor
    IN  [j \in 1..n |-> r[walk[j]]]

\* C17: the replica set of every key is a function of V, R, the sequence of
\* add_node calls and the key, so two clusters built alike route alike; and
\* no step other than add_node changes the replica set of any key.
C17_RoutingDeterminism ==
    /\ [](\A key \in Keys : get_nodes(key) = Route(nodes, key))
    /\ [][Len(nodes') = Len(nodes)
          => \A key \in Keys : get_nodes(key)' = get_nodes(key)]_vars

\* Both nodes are on the ring, k1 was written before the second was added,
\* and the replica set of k1 is b then a.
C17_Witness ==
    /\ Len(nodes) = 2
    /\ "k1" \in DOMAIN store[1]
    /\ "k1" \notin DOMAIN store[2]
    /\ get_nodes("k1") = <<1, 0>>

\* C18: the expirer removes from a store only entries that have expired: an
\* entry it removes carries an expiry, and that expiry is at or before the
\* current time.
C18_ExpirerOnlyExpired ==
    [][\A p \in Positions :
          (expirer[p].pc = "remove" /\ expirer'[p].pc = "pop")
          => LET key == expirer[p].key[1]
             IN  (key \in DOMAIN store[p] /\ key \notin DOMAIN store'[p])
                 => Expired(store[p][key])]_vars

\* The clockwise walk from the hash of key: the ring entries from the
\* smallest coordinate at or after the hash upwards, then those before the
\* hash from the smallest upwards, each entry once; cut at R entries.
Clockwise(key) ==
    LET khash == xxh32(key)
        walk  == Ascending({c \in DOMAIN ring : c >= khash})
                     \o Ascending({c \in DOMAIN ring : c < khash})
        n     == IF Len(walk) < replication_factor THEN Len(walk)
                 ELSE replication_factor
    IN  [j \in 1..n |-> ring[walk[j]]]

\* C19: on a ring that is not empty, get_nodes returns the owners of the
\* first R entries of the clockwise walk from the hash of the key, which
\* starts at the smallest coordinate at or after the hash, wraps around to
\* the smallest coordinate of the ring, and visits no entry twice.
C19_PrimarySelection ==
    ring # EmptyMap => \A key \in Keys : get_nodes(key) = Clockwise(key)

\* The call of c takes a step.
Steps(c) == caller'[c] # caller[c]

\* The operation the set or del of c sends.
OpOf(c) ==
    IF caller[c].op = "set" THEN OpSet(caller[c].key, caller[c].value, caller[c].ttl)
    ELSE OpDel(caller[c].key)

\* C20: the first step of a set or del changes the store of the primary and
\* nothing of any other node; the later steps of the call change no store;
\* its i-th send appends the operation to the mailbox of the i-th other node
\* of the replica set of the key, never to the mailbox of the primary, and
\* changes no other mailbox; the call returns after one send to each other
\* node of the replica set.
C20_WritePattern ==
    [][\A c \in Callers :
          /\ WriteBegins(c)
             => /\ \A p \in Positions :
                      p # Primary(caller'[c].key) => store'[p] = store[p]
                /\ mailbox' = mailbox
                /\ caller'[c].pc = "idle"
                      => Len(ReplicaSet(caller'[c].key)) = 1
          /\ (caller[c].pc \in {"set_push", "del_queue"} /\ Steps(c))
             => /\ store' = store
                /\ mailbox' = mailbox
                /\ caller'[c].pc = "idle" => Len(ReplicaSet(caller[c].key)) = 1
          /\ (caller[c].pc = "send" /\ Steps(c))
             => LET rs == ReplicaSet(caller[c].key)
                    i  == caller[c].i
                IN  /\ store' = store
                    /\ i <= Len(rs)
                    /\ Pos(rs[i]) # Primary(caller[c].key)
                    /\ mailbox' = [mailbox EXCEPT ![Pos(rs[i])] = Append(@, OpOf(c))]
                    /\ caller'[c].pc = "idle" <=> i = Len(rs)]_vars

\* The get of c begins in this step, on a ring with a node.
GetBegins(c) ==
    /\ caller[c].pc = "idle"
    /\ Steps(c)
    /\ caller'[c].op = "get"
    /\ nodes # <<>>

DelSteps(c) ==
    /\ Steps(c)
    /\ nodes # <<>>
    /\ \/ caller[c].pc = "idle" /\ caller'[c].op = "del"
       \/ caller[c].pc # "idle" /\ caller[c].op = "del"

\* C22: when del(k) returns, neither the store nor the expiry queue of the
\* primary of k holds k; no step of a del changes the entry or the queue
\* record of another key on any node.
C22_DelPostcondition ==
    [][\A c \in Callers :
          DelSteps(c)
          => LET key == caller'[c].key
                 p   == Primary(key)
             IN  /\ caller'[c].pc = "idle"
                    => /\ key \notin DOMAIN store'[p]
                       /\ key \notin DOMAIN ttl_queue'[p]
                 /\ \A q \in Positions :
                       /\ MapDel(store'[q], key) = MapDel(store[q], key)
                       /\ MapDel(ttl_queue'[q], key) = MapDel(ttl_queue[q], key)]_vars

\* The elements of a sequence.
Range(s) == {s[j] : j \in 1..Len(s)}

\* The replica set of key on the ring that the add_node calls for ids
\* build: the first R distinct nodes of the clockwise walk.
ReplicaSetAt(ids, key) ==
    LET r     == RingOf(ids)
        khash == xxh32(key)
        order == Ascending({c \in DOMAIN r : c >= khash})
                     \o Ascending({c \in DOMAIN r : c < khash})
        walk  == Distinct([j \in 1..Len(order) |-> r[order[j]]])
    IN  SubSeq(walk, 1, IF Len(walk) < replication_factor THEN Len(walk)
                        ELSE replication_factor)

\* C23: every key in the store of a node is a key whose replica set, on
\* the ring as it is now, has that node.
C23_Placement ==
    \A p \in Positions : \A key \in DOMAIN store[p] :
        (p - 1) \in Range(ReplicaSetAt(nodes, key))

\* C23, amended: every key in the store of a node is a key whose replica
\* set had that node on the ring as it was after some add_node call, the
\* last one or an earlier one.
C23_PlacementAtWrite ==
    \A p \in Positions : \A key \in DOMAIN store[p] :
        \E n \in 1..Len(nodes) :
            (p - 1) \in Range(ReplicaSetAt(SubSeq(nodes, 1, n), key))

\* With a, b and c on the ring, b holds k2, written when b was in its
\* replica set, and the replica set of k2 is now c and a.
C23_Witness ==
    /\ Len(nodes) = 3
    /\ "k2" \in DOMAIN store[2]
    /\ ReplicaSetAt(nodes, "k2") = <<2, 0>>

\* Key is being removed from node p: the expirer of p has removed it from
\* the store and not yet popped it, or a del or a lazy eviction has removed
\* it from the store and not yet from the queue.
Removing(p, key) ==
    \/ expirer[p].pc = "pop" /\ expirer[p].key = Some(key)
    \/ \E c \in DOMAIN caller :
           /\ caller[c].pc \in {"del_queue", "get_queue"}
           /\ caller[c].key = key
           /\ Pos(caller[c].nodes[1]) = p

\* C24: on every node, every key with a record in the expiry queue is in
\* the store, except a key that is in the middle of being removed.
C24_QueueWithinStore ==
    \A p \in Positions : \A key \in DOMAIN ttl_queue[p] :
        key \in DOMAIN store[p] \/ Removing(p, key)

\* s is t or the beginning of t.
IsPrefix(s, t) == Len(s) <= Len(t) /\ s = SubSeq(t, 1, Len(s))

\* C25: every index in the ring is an index of the node list; the node
\* list only grows at its end, so a node keeps its index; a coordinate that
\* is in the ring stays in the ring.
C25_RingIndices ==
    /\ [](\A c \in DOMAIN ring : ring[c] \in 0..(Len(nodes) - 1))
    /\ [][/\ IsPrefix(nodes, nodes')
          /\ Len(nodes') <= Len(nodes) + 1
          /\ DOMAIN ring \subseteq DOMAIN ring']_vars

\* Three nodes have been added and two of them own entries of the ring.
C25_Witness ==
    /\ Len(nodes) = 3
    /\ Cardinality(RingNodes) >= 2

\* The coordinates of the node added in this step.
AddedCoords ==
    {xxh32(VnodeName(nodes'[Len(nodes')], i)) : i \in 0..(vnodes_per_node - 1)}

\* C27: add_node goes through whether or not its coordinates are in the
\* ring already; each of its coordinates then belongs to the new node, the
\* other entries are as they were, every index in the ring is valid, and
\* after a collision the ring has fewer entries than nodes times V.
C27_CoordinateCollision ==
    [][Len(nodes') > Len(nodes)
       => /\ DOMAIN ring' = DOMAIN ring \cup AddedCoords
          /\ \A c \in AddedCoords : ring'[c] = Len(nodes)
          /\ \A c \in DOMAIN ring \ AddedCoords : ring'[c] = ring[c]
          /\ \A c \in DOMAIN ring' : ring'[c] \in 0..(Len(nodes') - 1)
          /\ (AddedCoords \cap DOMAIN ring # {} \/ Cardinality(AddedCoords) < vnodes_per_node)
             => Cardinality(DOMAIN ring') < Len(nodes') * vnodes_per_node]_vars

\* A node has lost every coordinate to nodes added after it: there are two
\* nodes and the ring has entries of the second only.
C27_Witness ==
    /\ Len(nodes) = 2
    /\ nodes[1] # nodes[2]
    /\ RingNodes = {1}
    /\ Cardinality(DOMAIN ring) < 2 * vnodes_per_node

\* C28: every add_node completes without failure, appends one node and
\* leaves each of the V coordinates of the node in the ring with the index
\* of the node, whether or not a clone of the cluster is alive.
C28_AddNodeAtomic ==
    [][Len(nodes') > Len(nodes)
       => /\ handle'.pc = "ok"
          /\ nodes' = Append(nodes, nodes'[Len(nodes')])
          /\ \A c \in AddedCoords : c \in DOMAIN ring' /\ ring'[c] = Len(nodes)]_vars

\* Key has been set once and never otherwise written: the expiry that the
\* set computed on the primary, as Some(instant); None when key has not
\* been written once, or a write of it is under way past its first set.
SingleSetExpiry(key) ==
    LET inflight == {c \in DOMAIN caller :
                        caller[c].pc # "idle" /\ caller[c].key = key}
    IN  IF hist[key] = <<>> /\ Cardinality(inflight) = 1
        THEN (LET c == CHOOSE c \in inflight : TRUE
              IN  IF caller[c].op = "set" THEN caller[c].expiry ELSE None)
        ELSE IF Len(hist[key]) = 1 /\ inflight = {} /\ hist[key][1].op = "set"
        THEN hist[key][1].expiry
        ELSE None

\* C29: for a single set(k, v, ttl) with a ttl, the expiry that a replica
\* records for k is at or after the expiry that the primary recorded.
C29_ReplicaExpiryLater ==
    \A key \in Keys :
        SingleSetExpiry(key) # None
        => \A p \in Replicas(key) :
               key \in DOMAIN store[p]
               => /\ store[p][key].expiry # None
                  /\ store[p][key].expiry[1] >= SingleSetExpiry(key)[1]

\* After one set of k1 with a ttl, the replica holds k1 with an expiry
\* later than the primary's.
C29_Witness ==
    /\ SingleSetExpiry("k1") # None
    /\ \E p \in Replicas("k1") :
           /\ "k1" \in DOMAIN store[p]
           /\ store[p]["k1"].expiry[1] > SingleSetExpiry("k1")[1]

\* The expirer of p, holding the queue mutex, has reached store.remove and
\* the write lock of the shard is not to be had.
ExpirerBlocked(p) ==
    /\ expirer[p].pc = "remove"
    /\ ~CanWrite(p, expirer[p].key[1])

\* C26: the holder of a queue mutex is never at an operation on the
\* concurrent map, and the expirer is never blocked on a shard lock while
\* it holds the mutex.
C26_QueueMutexDiscipline ==
    \A p \in Positions :
        /\ QueueLocked(p) => expirer[p].pc # "remove"
        /\ ~ExpirerBlocked(p)

====
